---- MODULE Spec2Model ----
(***************************************************************************)
(* Admission control of DB-GENIE's chat endpoint:                          *)
(*   - UserQuotaService (services/rate_limiting/user_quota.py): per-user   *)
(*     minute/hour/day counters kept in Redis keys with a TTL;             *)
(*   - MultiKeyRateLimiter (services/rate_limiting/llm_rate_limiter.py):   *)
(*     a semaphore, a lock, a round-robin cursor and per-key timestamps;   *)
(*   - pass_user_prompt_to_llm (api/routes/conversation.py): the handler   *)
(*     that composes them and releases the limiter.                        *)
(* Every await of the code is a separate step, so that other tasks, other  *)
(* processes and the passage of time interleave where they can in the code.*)
(***************************************************************************)
EXTENDS Integers, Sequences, FiniteSets, TLC

VARIABLES
    redis,        \* the shared store: key -> [val, ttl]; ttl = -2: no such key
    enabled,      \* UserQuotaConfig.enabled of each worker process
    has_redis,    \* whether self.redis is a client (not None) in each worker
    task,         \* the check_and_increment / get_usage call each worker runs
    accepted,     \* history: accepted calls counted by a key since it last was absent
    first_age,    \* history: seconds since the oldest accepted call a live key counts
    last_age,     \* history: seconds since the last accepted call of a key (-1: none)
    elapses,      \* number of time steps taken so far
    recover,      \* history: seconds until every timeframe that a caller's last
                  \* rejection reported exhausted has run out its resets_in (-1: none)
    now,          \* time.time(), in seconds
    lim_enabled,  \* RateLimiterConfig.enabled
    api_keys,     \* RateLimiterConfig.api_keys: the pool, each credential by a name
    secret,       \* the characters of each credential of the pool
    max_rpm_per_key,  \* RateLimiterConfig.max_rpm_per_key
    max_concurrent,   \* RateLimiterConfig.max_concurrent
    semaphore,    \* value of self.semaphore
    lock,         \* the request that holds self.lock, or "none"
    current_key_index,
    key_timestamps,
    req,          \* the chat request each handler task serves
    outstanding,  \* history: granted acquisitions not yet released
    calls,        \* history: calls of acquire() so far
    stats,        \* what the last call of get_stats() returned
    last_grant    \* history: the credential of the last grant of the enabled limiter,
                  \* and whether no credential was at its ceiling when it was made

qvars == <<redis, enabled, has_redis, task, accepted, first_age, last_age, elapses,
           recover>>

\* RateLimiterConfig: set at construction, never changed
config == <<lim_enabled, api_keys, secret, max_rpm_per_key, max_concurrent>>

lvars == <<now, config, semaphore, lock, current_key_index,
           key_timestamps, req, outstanding, calls, stats, last_grant>>

vars == <<qvars, lvars>>

----------------------------------------------------------------------------
(* Bounds of the model *)

PerMinute == 1      \* config.per_minute
PerHour == 2        \* config.per_hour
PerDay == 3         \* config.per_day
MaxElapse == 2      \* time steps explored

MaxRpmPerKey == 1   \* config.max_rpm_per_key
MaxConcurrent == 2  \* config.max_concurrent
QueueTimeout == 40  \* config.queue_timeout, seconds
TickLen == 20       \* seconds between two readings of the clock
MaxTime == 80       \* the clock stops here
MaxCalls == 4       \* calls of acquire() explored
LiveCalls == 3      \* calls of acquire() explored under fair scheduling
MaxKeyLen == 13     \* characters of the longest credential explored
HandlerCalls == 3   \* calls of acquire() explored behind the quota guard

Users == {"u1", "u2"}
Workers == {"w1", "w2"}
Reqs == {"r1", "r2", "r3"}

\* the requests of the seven-acquisition scenario, in the order they are issued
ScenarioOrder == <<"r1", "r2", "r3", "r4", "r5", "r6", "r7">>

ScenarioReqs == {ScenarioOrder[n] : n \in DOMAIN ScenarioOrder}
Pools == {<<>>, <<"A">>, <<"A", "B">>}

----------------------------------------------------------------------------
(* UserQuotaService *)

\* self.limits: timeframe -> (limit, ttl), in the order the loops visit them
Timeframes == <<"minute", "hour", "day">>

TF == {Timeframes[n] : n \in 1..3}

limits ==
    [minute |-> <<PerMinute, 60>>, hour |-> <<PerHour, 3600>>, day |-> <<PerDay, 86400>>]

Limit(tf) == limits[tf][1]

Window(tf) == limits[tf][2]

\* _get_key: f"quota:{user_id}:{timeframe}"
_get_key(user_id, timeframe) == <<"quota", user_id, timeframe>>

Keys == {_get_key(u, tf) : u \in Users, tf \in TF}

NoKey == [val |-> 0, ttl |-> -2]

\* redis.get(key) followed by `int(current) if current else 0`
CurrentCount(store, key) == IF store[key].ttl = -2 THEN 0 ELSE store[key].val

RemainingTtlNone(store, key, ttl) == 0

\* redis.ttl(key) followed by `if remaining_ttl < 0: remaining_ttl = ttl`
RemainingTtl(store, key, ttl) == IF store[key].ttl < 0 THEN ttl ELSE store[key].ttl

ExceededStrict(current_count, limit) == current_count > limit

\* `if current_count >= limit`
Exceeded(current_count, limit) == current_count >= limit

NextExceededLastOnly(exceeded_timeframe, timeframe, current_count, limit) ==
    IF Exceeded(current_count, limit) THEN timeframe ELSE "none"

\* the loop's `exceeded_timeframe = timeframe`, which a later timeframe never clears
NextExceeded(exceeded_timeframe, timeframe, current_count, limit) ==
    IF Exceeded(current_count, limit) THEN timeframe ELSE exceeded_timeframe

QuotaDisabledNever(w) == FALSE

\* `if not self.config.enabled`
QuotaDisabled(w) == ~enabled[w]

RedisMissingNever(w) == FALSE

\* `if not self.redis`
RedisMissing(w) == ~has_redis[w]

\* the snapshot of the disabled / no-client returns
ZeroUsage == [tf \in TF |-> [used |-> 0, limit |-> Limit(tf), resets_in |-> 0]]

NoUsage == [tf \in TF |-> [used |-> 0, limit |-> 0, resets_in |-> 0]]

\* INCR of one key: a missing key counts from 0
Incr(entry) == IF entry.ttl = -2 THEN 1 ELSE entry.val + 1

PipelineMinuteOnly(store, user_id) ==
    [k \in Keys |->
        IF k[2] = user_id /\ k[3] = "minute"
        THEN [val |-> IF store[k].ttl = -2 THEN 1 ELSE store[k].val + 1, ttl |-> 60]
        ELSE store[k]]

PipelineNoExpire(store, user_id) ==
    [k \in Keys |->
        IF k[2] = user_id
        THEN [val |-> IF store[k].ttl = -2 THEN 1 ELSE store[k].val + 1,
              ttl |-> IF store[k].ttl = -2 THEN -1 ELSE store[k].ttl]
        ELSE store[k]]

\* a batch that leaves the day counter out
PipelineNoDay(store, user_id) ==
    [k \in Keys |->
        IF k[2] = user_id /\ k[3] # "day"
        THEN [val |-> Incr(store[k]), ttl |-> Window(k[3])]
        ELSE store[k]]

\* a batch that increments the counters of every caller
PipelineAllUsers(store, user_id) ==
    [k \in Keys |-> [val |-> Incr(store[k]), ttl |-> Window(k[3])]]

\* pipe.incr(key); pipe.expire(key, ttl) for the three timeframes, one MULTI/EXEC
PipelineExecute(store, user_id) ==
    [k \in Keys |->
        IF k[2] = user_id
        THEN [val |-> Incr(store[k]), ttl |-> Window(k[3])]
        ELSE store[k]]

\* usage.minute["used"] += 1 and the same for hour and day
Incremented(usage) == [tf \in TF |-> [usage[tf] EXCEPT !.used = @ + 1]]

IdleTask ==
    [pc |-> "idle", op |-> "none", user_id |-> "none", i |-> 0, current_count |-> 0,
     usage_data |-> NoUsage, exceeded_timeframe |-> "none", allowed |-> FALSE,
     touched |-> FALSE, wrote |-> FALSE, recovered |-> FALSE, torn |-> FALSE,
     seen_count |-> [tf \in TF |-> 0], seen_accepted |-> [tf \in TF |-> 0]]

QInit ==
    /\ redis = [k \in Keys |-> NoKey]
    /\ enabled \in [Workers -> BOOLEAN]
    /\ has_redis \in [Workers -> BOOLEAN]
    /\ task = [w \in Workers |-> IdleTask]
    /\ accepted = [k \in Keys |-> 0]
    /\ first_age = [k \in Keys |-> -1]
    /\ last_age = [k \in Keys |-> -1]
    /\ elapses = 0
    /\ recover = [u \in Users |-> -1]

Ops == {"check_and_increment", "get_usage"}

Range(f) == {f[x] : x \in DOMAIN f}

\* no response yet; `usage` holds the snapshot of the response body, if it has one
NoResponse == [status |-> 0, error |-> "none", usage |-> {}]

IdleReq ==
    [pc |-> "idle", deadline |-> 0, wait_time |-> 0, slept_from |-> 0,
     oldest_key |-> "none", success |-> FALSE, api_key |-> "none", outcome |-> "none",
     released |-> 0, response |-> NoResponse,
     quota_before |-> [tf \in TF |-> 0]]

\* the characters a credential can be made of
Alphabet == {"k", "."}

\* LLM_API_KEYS: each credential is what is left of an item of the
\* comma-separated list after strip(), and is not empty
Credentials == UNION {[1..n -> Alphabet] : n \in 1..MaxKeyLen}

\* a credential of MaxKeyLen characters for each name of the pool
KeyText(keys) == [key \in Range(keys) |-> [i \in 1..MaxKeyLen |-> "k"]]

\* get_stats() has not been called
NoStats == [called |-> FALSE, keys |-> <<>>]

\* MultiKeyRateLimiter.__init__ for a pool whose credentials read `text`
LimiterWith(is_enabled, keys, text, max_rpm, max_conc) ==
    /\ now = 0
    /\ lim_enabled = is_enabled
    /\ api_keys = keys
    /\ secret = text
    /\ stats = NoStats
    /\ max_rpm_per_key = max_rpm
    /\ max_concurrent = max_conc
    /\ semaphore = max_conc
    /\ lock = "none"
    /\ current_key_index = 0
    /\ key_timestamps = [k \in Range(keys) |-> <<>>]
    /\ req = [r \in ScenarioReqs |-> IdleReq]
    /\ outstanding = 0
    /\ calls = 0
    /\ last_grant = [key |-> "none", light |-> FALSE]

LimiterInit(is_enabled, keys, max_rpm, max_conc) ==
    LimiterWith(is_enabled, keys, KeyText(keys), max_rpm, max_conc)

\* A return (or a raise) hands the result to the caller at once: nothing else is
\* scheduled between a call's last step and the caller's use of its result.
Quiet == \A w \in Workers : task[w].pc \notin {"ret", "raised"}

\* entry of check_and_increment (lines 80-97) or get_usage (lines 158-165)
Begin(w, u, o) ==
    /\ task[w].pc = "idle"
    /\ Quiet
    /\ IF QuotaDisabled(w) \/ RedisMissing(w)
       THEN task' = [task EXCEPT ![w] =
                [IdleTask EXCEPT !.pc = "ret", !.op = o, !.user_id = u,
                                 !.usage_data = ZeroUsage, !.allowed = TRUE]]
       ELSE task' = [task EXCEPT ![w] =
                [IdleTask EXCEPT !.pc = "get", !.op = o, !.user_id = u, !.i = 1,
                                 !.recovered = (recover[u] = 0)]]
    /\ UNCHANGED <<redis, enabled, has_redis, accepted, first_age, last_age, elapses,
                     recover, lvars>>

\* `current = await self.redis.get(key)`
Get(w) ==
    LET t == task[w]
        tf == Timeframes[t.i]
        key == _get_key(t.user_id, tf)
    IN  /\ t.pc = "get"
        /\ Quiet
        /\ task' = [task EXCEPT ![w] =
                [t EXCEPT !.pc = "ttl", !.current_count = CurrentCount(redis, key),
                          !.touched = TRUE, !.seen_accepted[tf] = accepted[key],
                          !.seen_count[tf] = redis[key].val]]
        /\ UNCHANGED <<redis, enabled, has_redis, accepted, first_age, last_age, elapses,
                     recover, lvars>>

NoIncrementNever(op) == FALSE

\* get_usage ends after its loop (lines 183-187): no pipeline
NoIncrement(op) == op = "get_usage"

MaxOf(S) == CHOOSE x \in S : \A y \in S : y <= x

\* the timeframes a snapshot shows at or above their limit
Exhausted(usage) == {tf \in TF : Exceeded(usage[tf].used, usage[tf].limit)}

\* `remaining_ttl = await self.redis.ttl(key)` to the end of the loop body; after the
\* last timeframe, the code up to the next await or return
Ttl(w) ==
    LET t == task[w]
        tf == Timeframes[t.i]
        key == _get_key(t.user_id, tf)
        usage == [t.usage_data EXCEPT ![tf] =
                    [used |-> t.current_count, limit |-> Limit(tf),
                     resets_in |-> RemainingTtl(redis, key, Window(tf))]]
        exceeded == IF t.op = "check_and_increment"
                    THEN NextExceeded(t.exceeded_timeframe, tf, t.current_count, Limit(tf))
                    ELSE t.exceeded_timeframe
        t1 == [t EXCEPT !.usage_data = usage, !.exceeded_timeframe = exceeded,
                        !.current_count = 0]
    IN  /\ t.pc = "ttl"
        /\ Quiet
        /\ task' = [task EXCEPT ![w] =
                IF t.i < 3 THEN [t1 EXCEPT !.pc = "get", !.i = t.i + 1]
                ELSE IF NoIncrement(t.op) THEN [t1 EXCEPT !.pc = "ret", !.allowed = TRUE]
                ELSE IF exceeded # "none" THEN [t1 EXCEPT !.pc = "ret", !.allowed = FALSE]
                ELSE [t1 EXCEPT !.pc = "exec"]]
        /\ recover' =
                IF t.i = 3 /\ t.op = "check_and_increment" /\ exceeded # "none"
                THEN [recover EXCEPT ![t.user_id] =
                        MaxOf({usage[x].resets_in : x \in Exhausted(usage)})]
                ELSE recover
        /\ UNCHANGED <<redis, enabled, has_redis, accepted, first_age, last_age, elapses, lvars>>

\* the number of counters a call has read so far
CountsRead(t) ==
    IF t.pc = "get" THEN t.i - 1 ELSE IF t.pc = "ttl" THEN t.i ELSE 0

\* `await pipe.execute()` and the return of the accepted call; history: the calls
\* for the same caller that have read some of the counters and not yet the
\* others are marked, their snapshot straddles this batch
Execute(w) ==
    LET t == task[w]
        mine == {_get_key(t.user_id, tf) : tf \in TF}
    IN  /\ t.pc = "exec"
        /\ Quiet
        /\ redis' = PipelineExecute(redis, t.user_id)
        /\ task' = [x \in Workers |->
                IF x = w
                THEN [t EXCEPT !.pc = "ret", !.allowed = TRUE, !.wrote = TRUE,
                               !.usage_data = Incremented(t.usage_data)]
                ELSE IF task[x].user_id = t.user_id /\ CountsRead(task[x]) \in 1..2
                THEN [task[x] EXCEPT !.torn = TRUE]
                ELSE task[x]]
        /\ accepted' = [k \in Keys |-> IF k \in mine THEN accepted[k] + 1 ELSE accepted[k]]
        /\ first_age' = [k \in Keys |->
                IF k \in mine /\ redis[k].ttl = -2 THEN 0 ELSE first_age[k]]
        /\ last_age' = [k \in Keys |-> IF k \in mine THEN 0 ELSE last_age[k]]
        /\ recover' = [recover EXCEPT ![t.user_id] = -1]
        /\ UNCHANGED <<enabled, has_redis, elapses, lvars>>

\* a store operation raises (connection lost): no try/except in the service
StoreError(w) ==
    /\ task[w].pc \in {"get", "ttl", "exec"}
    /\ Quiet
    /\ task' = [task EXCEPT ![w] = [@ EXCEPT !.pc = "raised", !.touched = TRUE]]
    /\ UNCHANGED <<redis, enabled, has_redis, accepted, first_age, last_age, elapses,
                     recover, lvars>>

\* the caller has consumed the result (or the exception)
Consume(w) ==
    /\ task[w].pc \in {"ret", "raised"}
    /\ task' = [task EXCEPT ![w] = IdleTask]
    /\ UNCHANGED <<redis, enabled, has_redis, accepted, first_age, last_age, elapses,
                   recover>>

\* the same, of a caller that has nothing to do with the limiter
Return(w) == Consume(w) /\ UNCHANGED lvars

Min(a, b) == IF a < b THEN a ELSE b

\* d seconds pass: Redis counts every TTL down and deletes the keys that reach 0
Expire(store, d) ==
    [k \in Keys |-> IF store[k].ttl = -2 \/ store[k].ttl > d
                    THEN [store[k] EXCEPT !.ttl = IF @ = -2 THEN -2 ELSE @ - d]
                    ELSE NoKey]

LiveTtls == {redis[k].ttl : k \in {x \in Keys : redis[x].ttl > 0}}

\* the durations that lead to just before, or to, the next expiry of a key
Durations == {d \in UNION {{m - 1, m} : m \in LiveTtls} : \A m \in LiveTtls : d <= m}

Age(a, d, cap) == IF a = -1 THEN -1 ELSE Min(a + d, cap)

Expiry(d, n) ==
    /\ d > 0
    /\ Quiet
    /\ elapses' = n
    /\ redis' = Expire(redis, d)
    /\ accepted' = [k \in Keys |-> IF redis'[k].ttl = -2 THEN 0 ELSE accepted[k]]
    /\ first_age' = [k \in Keys |->
            IF redis'[k].ttl = -2 THEN -1 ELSE Age(first_age[k], d, Window(k[3]) + 1)]
    /\ last_age' = [k \in Keys |-> Age(last_age[k], d, Window(k[3]) + 1)]
    /\ recover' = [u \in Users |-> IF recover[u] > d THEN recover[u] - d ELSE Min(recover[u], 0)]
    /\ UNCHANGED <<enabled, has_redis, task>>

ElapseStep(d, n) == Expiry(d, n) /\ UNCHANGED lvars

\* the durations that lead exactly to the next expiry of a key
ExpiryDurations == {d \in LiveTtls : \A m \in LiveTtls : d <= m}

\* time passes, in the sequential specification as often as it likes
Elapse(d) == ElapseStep(d, elapses)

\* time passes, at most MaxElapse times
BoundedElapse(d) == elapses < MaxElapse /\ ElapseStep(d, elapses + 1)

AllIdle == \A w \in Workers : task[w].pc = "idle"

\* the quota services of the worker processes over an empty store
Init == QInit /\ LimiterInit(TRUE, <<"A", "B">>, MaxRpmPerKey, MaxConcurrent)

\* The quota guard called for one caller by two workers at once, under any
\* interleaving of the store operations of their calls.
QNext ==
    \/ \E w \in Workers, o \in Ops : Begin(w, "u1", o)
    \/ \E w \in Workers : Get(w)
    \/ \E w \in Workers : Ttl(w)
    \/ \E w \in Workers : Execute(w)
    \/ \E w \in Workers : StoreError(w)
    \/ \E w \in Workers : Return(w)
    \/ \E d \in Durations : BoundedElapse(d)

Spec == Init /\ [][QNext]_vars

\* Sequential use: a call begins only when no other call is in progress; any
\* caller, any worker, time passing between any two store operations.
SeqNext ==
    \/ \E w \in Workers, u \in {"u1"}, o \in Ops : AllIdle /\ Begin(w, u, o)
    \/ \E w \in Workers : Get(w)
    \/ \E w \in Workers : Ttl(w)
    \/ \E w \in Workers : Execute(w)
    \/ \E w \in Workers : StoreError(w)
    \/ \E w \in Workers : Return(w)
    \/ \E d \in Durations : Elapse(d)

SpecSeq == Init /\ [][SeqNext]_vars

\* Concurrent check_and_increment calls of two workers for one caller, time
\* passing from one expiry to the next.
RaceNext ==
    \/ \E w \in Workers : Begin(w, "u1", "check_and_increment")
    \/ \E w \in Workers : Get(w)
    \/ \E w \in Workers : Ttl(w)
    \/ \E w \in Workers : Execute(w)
    \/ \E w \in Workers : StoreError(w)
    \/ \E w \in Workers : Return(w)
    \/ \E d \in ExpiryDurations : BoundedElapse(d)

SpecRace == Init /\ [][RaceNext]_vars

\* `user_id = user.get('uid') or user`: each worker serves the requests of one
\* caller
Served(w) == IF w = "w1" THEN "u1" ELSE "u2"

\* Calls of two callers at once, each through its own worker, under any
\* interleaving of their store operations, time passing twice at most, each time
\* up to the next expiry.
CallersNext ==
    \/ \E w \in Workers, o \in Ops : Begin(w, Served(w), o)
    \/ \E w \in Workers : Get(w)
    \/ \E w \in Workers : Ttl(w)
    \/ \E w \in Workers : Execute(w)
    \/ \E w \in Workers : StoreError(w)
    \/ \E w \in Workers : Return(w)
    \/ \E d \in ExpiryDurations : elapses < 2 /\ ElapseStep(d, elapses + 1)

SpecCallers == Init /\ [][CallersNext]_vars

----------------------------------------------------------------------------
(* MultiKeyRateLimiter and the part of pass_user_prompt_to_llm that uses it *)

TrimStopsAtWindow(timestamps, t) == timestamps

\* `while timestamps and now - timestamps[0] > 60: timestamps.popleft()`
RECURSIVE Trim(_, _)
Trim(timestamps, t) ==
    IF timestamps # <<>> /\ t - Head(timestamps) > 60
    THEN Trim(Tail(timestamps), t)
    ELSE timestamps

HasCapacityAlways(n, max_rpm) == TRUE

\* `if len(timestamps) < self.config.max_rpm_per_key`
HasCapacity(n, max_rpm) == n < max_rpm

NextIndexStuck(index, n) == index

\* `self.current_key_index = (self.current_key_index + 1) % len(self.config.api_keys)`
NextIndex(index, n) == (index + 1) % n

\* the `for _ in range(len(self.config.api_keys))` loop, n iterations to go:
\* the cursor advances before the candidate is examined, the candidate's window
\* is trimmed, and the first candidate with capacity gets the timestamp
RECURSIVE Scan(_, _, _, _, _)
Scan(n, keys, index, stamps, t) ==
    IF n = 0
    THEN [found |-> FALSE, key |-> "none", index |-> index, stamps |-> stamps]
    ELSE LET key == keys[index + 1]
             next == NextIndex(index, Len(keys))
             trimmed == Trim(stamps[key], t)
         IN  IF HasCapacity(Len(trimmed), max_rpm_per_key)
             THEN [found |-> TRUE, key |-> key, index |-> next,
                   stamps |-> [stamps EXCEPT ![key] = Append(trimmed, t)]]
             ELSE Scan(n - 1, keys, next, [stamps EXCEPT ![key] = trimmed], t)

\* position of the first occurrence of a key in the pool: the iteration order
\* of the key_timestamps dict
FirstIndex(keys, key) == CHOOSE n \in 1..Len(keys) :
    keys[n] = key /\ \A m \in 1..(n - 1) : keys[m] # key

\* the order of the lambda's values, `self.key_timestamps[k][0] if
\* self.key_timestamps[k] else float('inf')`: strictly before, and equal
Before(a, b) == a # <<>> /\ (b = <<>> \/ Head(a) < Head(b))

Same(a, b) == (a = <<>> /\ b = <<>>) \/ (a # <<>> /\ b # <<>> /\ Head(a) = Head(b))

OldestKeyFirst(keys, stamps) == keys[1]

\* `min(self.key_timestamps.keys(), key=lambda k: ...)`: the first key, in the
\* order of the dict, among those with the least value
OldestKey(keys, stamps) ==
    CHOOSE k \in DOMAIN stamps :
        \A j \in DOMAIN stamps :
            \/ Before(stamps[k], stamps[j])
            \/ Same(stamps[k], stamps[j]) /\ FirstIndex(keys, k) <= FirstIndex(keys, j)

WaitTimeNone(oldest_timestamps, t) == 0

\* `wait_time = 60 - (now - oldest_timestamps[0])`
WaitTime(oldest_timestamps, t) == 60 - (t - Head(oldest_timestamps))

SemaphoreLockedNever(value) == FALSE

\* asyncio.Semaphore.locked()
SemaphoreLocked(value) == value = 0

\* no credential is at its ceiling: every window, once trimmed, has room
Light(stamps, t) ==
    \A k \in DOMAIN stamps : HasCapacity(Len(Trim(stamps[k], t)), max_rpm_per_key)

\* No other task runs between a return of acquire() and the handler's next await
\* or return: a request at such a point takes its next step at once.
Running == \E r \in ScenarioReqs : req[r].pc \in {"acquired", "rejected", "done"}

GrantedNothing(r, key) == [r EXCEPT !.pc = "rejected"]

\* `return True, key`
Granted(r, key) ==
    [r EXCEPT !.pc = "acquired", !.success = TRUE, !.api_key = key,
              !.deadline = 0, !.wait_time = 0, !.slept_from = 0]

HoldingForever(r) == lock

\* the lock after request r has left `async with self.lock`, if it was inside
Holding(r) == IF lock = r THEN "none" ELSE lock

\* the credential a disabled limiter hands out:
\* `self.config.api_keys[0] if self.config.api_keys else None`
FirstOrNone(keys) == IF keys # <<>> THEN keys[1] ELSE "none"

NoKeysNever(keys) == FALSE

\* `if not self.config.api_keys:`
NoKeys(keys) == keys = <<>>

\* entry of acquire() (lines 65-82): the two early returns, then
\* `await asyncio.wait_for(self.semaphore.acquire(), timeout=queue_timeout)`
AcquireWith(r, q) ==
    /\ req[r].pc = "idle"
    /\ ~Running
    /\ calls' = calls + 1
    /\ IF ~lim_enabled
       THEN /\ req' = [req EXCEPT ![r] =
                    Granted(q, FirstOrNone(api_keys))]
            /\ UNCHANGED <<semaphore, outstanding>>
       ELSE IF NoKeys(api_keys)
       THEN /\ req' = [req EXCEPT ![r] = [q EXCEPT !.pc = "rejected"]]
            /\ UNCHANGED <<semaphore, outstanding>>
       ELSE IF ~SemaphoreLocked(semaphore)
       THEN /\ semaphore' = semaphore - 1
            /\ req' = [req EXCEPT ![r] = [q EXCEPT !.pc = "lock_wait"]]
            /\ UNCHANGED outstanding
       ELSE /\ req' = [req EXCEPT ![r] =
                    [q EXCEPT !.pc = "sem_wait", !.deadline = now + QueueTimeout]]
            /\ UNCHANGED <<semaphore, outstanding>>
    /\ UNCHANGED <<now, config, lock, current_key_index, key_timestamps,
                   last_grant, stats>>

\* acquire() called by a request that the quota guard has not counted
AcquireCall(r) == AcquireWith(r, IdleReq)

\* acquire() called with the quota service idle
AcquireBegin(r) == AcquireCall(r) /\ UNCHANGED qvars

\* a waiter of the semaphore is woken by a release and takes the slot
SemaphoreAcquired(r) ==
    /\ req[r].pc = "sem_wait"
    /\ ~Running
    /\ ~SemaphoreLocked(semaphore)
    /\ semaphore' = semaphore - 1
    /\ req' = [req EXCEPT ![r] = [@ EXCEPT !.pc = "lock_wait", !.deadline = 0]]
    /\ UNCHANGED <<now, config, lock, current_key_index, key_timestamps,
                   outstanding, calls, last_grant, stats, qvars>>

\* a timeout that hands out the first credential all the same
TimeoutWithKey(q) ==
    [q EXCEPT !.pc = "rejected", !.outcome = "timeout", !.success = FALSE,
              !.api_key = FirstOrNone(api_keys)]

\* `return False, None` of the timeout branch
TimeoutReturn(q) ==
    [q EXCEPT !.pc = "rejected", !.outcome = "timeout", !.success = FALSE,
              !.api_key = "none"]

\* `except asyncio.TimeoutError: return False, None`
SemaphoreTimeout(r) ==
    /\ req[r].pc = "sem_wait"
    /\ ~Running
    /\ now >= req[r].deadline
    /\ req' = [req EXCEPT ![r] = TimeoutReturn(@)]
    /\ UNCHANGED <<now, config, semaphore, lock, current_key_index,
                   key_timestamps, outstanding, calls, last_grant, stats, qvars>>

\* `async with self.lock:` down to the first return or to `await asyncio.sleep`
LockedScan(r) ==
    LET scan == Scan(Len(api_keys), api_keys, current_key_index, key_timestamps, now)
        oldest_key == OldestKey(api_keys, scan.stamps)
        wait_time == IF scan.stamps[oldest_key] # <<>>
                     THEN WaitTime(scan.stamps[oldest_key], now)
                     ELSE 0
    IN  /\ req[r].pc = "lock_wait"
        /\ ~Running
        /\ lock = "none"
        /\ current_key_index' = scan.index
        /\ IF scan.found
           THEN /\ key_timestamps' = scan.stamps
                /\ req' = [req EXCEPT ![r] = Granted(@, scan.key)]
                /\ outstanding' = outstanding + 1
                /\ last_grant' = [key |-> scan.key, light |-> Light(key_timestamps, now)]
                /\ UNCHANGED lock
           ELSE IF wait_time > 0
           THEN /\ key_timestamps' = scan.stamps
                /\ req' = [req EXCEPT ![r] =
                        [@ EXCEPT !.pc = "rpm_sleep", !.oldest_key = oldest_key,
                                  !.wait_time = wait_time, !.slept_from = now]]
                /\ lock' = r
                /\ UNCHANGED <<outstanding, last_grant>>
           ELSE /\ key_timestamps' =
                        [scan.stamps EXCEPT ![oldest_key] = Append(@, now)]
                /\ req' = [req EXCEPT ![r] =
                        Granted([@ EXCEPT !.oldest_key = oldest_key], oldest_key)]
                /\ outstanding' = outstanding + 1
                /\ last_grant' = [key |-> oldest_key, light |-> FALSE]
                /\ UNCHANGED lock
        /\ UNCHANGED <<now, config, semaphore, calls, stats, qvars>>

\* asyncio.sleep(wait_time) is over: `oldest_timestamps.append(time.time())`,
\* `return True, oldest_key`, and the lock is released
Wake(r) ==
    /\ req[r].pc = "rpm_sleep"
    /\ ~Running
    /\ now >= req[r].slept_from + req[r].wait_time
    /\ key_timestamps' = [key_timestamps EXCEPT ![req[r].oldest_key] = Append(@, now)]
    /\ req' = [req EXCEPT ![r] = Granted(@, req[r].oldest_key)]
    /\ outstanding' = outstanding + 1
    /\ last_grant' = [key |-> req[r].oldest_key, light |-> FALSE]
    /\ lock' = Holding(r)
    /\ UNCHANGED <<now, config, semaphore, current_key_index, calls, stats, qvars>>

\* the request's task is cancelled while acquire() is suspended: the exception
\* leaves acquire() and the handler, which calls acquire() outside its try
CancelInAcquire(r) ==
    /\ req[r].pc \in {"sem_wait", "lock_wait", "rpm_sleep"}
    /\ ~Running
    /\ req' = [req EXCEPT ![r] = [@ EXCEPT !.pc = "done", !.outcome = "cancelled"]]
    /\ lock' = Holding(r)
    /\ UNCHANGED <<now, config, semaphore, current_key_index,
                   key_timestamps, outstanding, calls, last_grant, stats, qvars>>

ReleaseNoop(value) == value

ReleaseAlways(value) == value + 1

\* release(): `if self.config.enabled: self.semaphore.release()`
Release(value) == IF lim_enabled THEN value + 1 ELSE value

Released(r) == [r EXCEPT !.released = @ + 1]

ServerBusyInternal == [status |-> 500, error |-> "internal", usage |-> {}]

\* HTTPException(status_code=429, detail={'error': 'server_busy', 'message': ...})
ServerBusyResponse == [status |-> 429, error |-> "server_busy", usage |-> {}]

\* `if not success: raise HTTPException(status_code=429, ...)`
ServerBusy(r) ==
    /\ req[r].pc = "rejected"
    /\ req' = [req EXCEPT ![r] = [@ EXCEPT !.pc = "done",
                    !.outcome = IF @ = "none" THEN "no_keys" ELSE @,
                    !.response = ServerBusyResponse]]
    /\ UNCHANGED <<now, config, semaphore, lock, current_key_index,
                   key_timestamps, outstanding, calls, last_grant, stats, qvars>>

\* the try block (lines 73-97) runs to `return StreamingResponse(...)`
BuildResponse(r) ==
    /\ req[r].pc = "acquired"
    /\ req' = [req EXCEPT ![r] = [@ EXCEPT !.pc = "responding"]]
    /\ UNCHANGED <<now, config, semaphore, lock, current_key_index,
                   key_timestamps, outstanding, calls, last_grant, stats, qvars>>

\* `if ConversationService.check_quota_error(str(e))`: 429, else 500
ErrorResponse(quota_error) ==
    IF quota_error
    THEN [status |-> 429, error |-> "Rate limit exceeded", usage |-> {}]
    ELSE [status |-> 500, error |-> "internal", usage |-> {}]

\* the try block raises: `except Exception` (lines 98-104) releases
BuildError(r) ==
    /\ req[r].pc = "acquired"
    /\ semaphore' = Release(semaphore)
    /\ outstanding' = IF lim_enabled THEN outstanding - 1 ELSE outstanding
    /\ \E quota_error \in BOOLEAN :
            req' = [req EXCEPT ![r] =
                [Released(req[r]) EXCEPT !.pc = "done", !.outcome = "build_error",
                                         !.response = ErrorResponse(quota_error)]]
    /\ UNCHANGED <<now, config, lock, current_key_index,
                   key_timestamps, calls, last_grant, stats, qvars>>

\* the request is aborted (the client is gone) before the framework has iterated
\* async_generator(): its body, and its finally, never run
AbortBeforeStream(r) ==
    /\ req[r].pc = "responding"
    /\ ~Running
    /\ req' = [req EXCEPT ![r] = [@ EXCEPT !.pc = "done", !.outcome = "aborted"]]
    /\ UNCHANGED <<now, config, semaphore, lock, current_key_index,
                   key_timestamps, outstanding, calls, last_grant, stats, qvars>>

StreamEnds == {"complete", "stream_error", "stream_cancelled"}

\* the framework iterates async_generator(), which ends by exhaustion, by an
\* exception or by cancellation: its `finally` (lines 88-90) releases
Stream(r, how) ==
    /\ req[r].pc = "responding"
    /\ ~Running
    /\ semaphore' = Release(semaphore)
    /\ outstanding' = IF lim_enabled THEN outstanding - 1 ELSE outstanding
    /\ req' = [req EXCEPT ![r] =
            [Released(req[r]) EXCEPT !.pc = "done", !.outcome = how]]
    /\ UNCHANGED <<now, config, lock, current_key_index,
                   key_timestamps, calls, last_grant, stats, qvars>>

\* the request is over; the task serves another one
Finish(r) ==
    /\ req[r].pc = "done"
    /\ req' = [req EXCEPT ![r] = IdleReq]
    /\ UNCHANGED <<now, config, semaphore, lock, current_key_index,
                   key_timestamps, outstanding, calls, last_grant, stats, qvars>>

\* `key[:8]`
Prefix(key) == SubSeq(key, 1, Min(8, Len(key)))

\* `key[-4:]`
Suffix(key) == SubSeq(key, IF Len(key) > 4 THEN Len(key) - 3 ELSE 1, Len(key))

\* `masked = f"{key[:8]}...{key[-4:]}"`
Masked(key) == Prefix(key) \o <<".", ".", ".">> \o Suffix(key)

\* `recent = sum(1 for t in timestamps if now - t <= 60)`
RpmUsed(timestamps, t) ==
    Cardinality({n \in DOMAIN timestamps : t - timestamps[n] <= 60})

\* the dict get_stats() builds, after the first n credentials of the pool: an
\* entry under an identifier already there is overwritten
RECURSIVE KeyStats(_)
KeyStats(n) ==
    IF n = 0 THEN <<>>
    ELSE LET before == KeyStats(n - 1)
             key == api_keys[n]
             masked == Masked(secret[key])
             entry == [rpm_used |-> RpmUsed(key_timestamps[key], now),
                       rpm_limit |-> max_rpm_per_key]
         IN  [m \in DOMAIN before \cup {masked} |->
                    IF m = masked THEN entry ELSE before[m]]

\* get_stats(): synchronous, it runs between two steps of the other tasks
GetStats ==
    /\ ~Running
    /\ stats' = [called |-> TRUE, keys |-> KeyStats(Len(api_keys))]
    /\ UNCHANGED <<now, config, semaphore, lock, current_key_index,
                   key_timestamps, req, outstanding, calls, last_grant, qvars>>

\* time.time() reads TickLen seconds more
Reading ==
    /\ ~Running
    /\ now' = now + TickLen
    /\ UNCHANGED <<config, semaphore, lock, current_key_index,
                   key_timestamps, req, outstanding, calls, last_grant, stats>>

\* the same, with nothing in the store that ages
Advance == Reading /\ UNCHANGED qvars

\* the clock advances, up to MaxTime
Tick == now + TickLen <= MaxTime /\ Advance

\* a call of acquire() is suspended until a time that has not come: the timeout
\* of wait_for, or the end of the sleep
Timed(r) ==
    \/ req[r].pc = "sem_wait" /\ now < req[r].deadline
    \/ req[r].pc = "rpm_sleep" /\ now < req[r].slept_from + req[r].wait_time

\* the clock advances, past MaxTime too while a call waits for a time
Clock == (now + TickLen <= MaxTime \/ \E r \in Reqs : Timed(r)) /\ Advance

QuotaIdle ==
    /\ redis = [k \in Keys |-> NoKey]
    /\ enabled = [w \in Workers |-> TRUE]
    /\ has_redis = [w \in Workers |-> TRUE]
    /\ task = [w \in Workers |-> IdleTask]
    /\ accepted = [k \in Keys |-> 0]
    /\ first_age = [k \in Keys |-> -1]
    /\ last_age = [k \in Keys |-> -1]
    /\ elapses = 0
    /\ recover = [u \in Users |-> -1]

LInit ==
    /\ QuotaIdle
    /\ \E is_enabled \in BOOLEAN, keys \in Pools :
            LimiterInit(is_enabled, keys, MaxRpmPerKey, MaxConcurrent)

LNext ==
    \/ \E r \in Reqs : calls < MaxCalls /\ AcquireBegin(r)
    \/ \E r \in Reqs : SemaphoreAcquired(r)
    \/ \E r \in Reqs : SemaphoreTimeout(r)
    \/ \E r \in Reqs : LockedScan(r)
    \/ \E r \in Reqs : Wake(r)
    \/ \E r \in Reqs : CancelInAcquire(r)
    \/ \E r \in Reqs : ServerBusy(r)
    \/ \E r \in Reqs : BuildResponse(r)
    \/ \E r \in Reqs : BuildError(r)
    \/ \E r \in Reqs : AbortBeforeStream(r)
    \/ \E r \in Reqs, how \in StreamEnds : Stream(r, how)
    \/ \E r \in Reqs : Finish(r)
    \/ Tick

\* the admission limiter of one process, serving concurrent chat requests
SpecLimiter == LInit /\ [][LNext]_vars

\* The scenario pool = [A, B], max_rpm_per_key = 2, max_concurrent = 10: seven
\* acquisitions issued one after another, each granted call then busy with its
\* stream, which never ends: no release.
ScenarioInit == QuotaIdle /\ LimiterInit(TRUE, <<"A", "B">>, 2, 10)

ScenarioNext ==
    \/ \E r \in ScenarioReqs :
            /\ calls < Len(ScenarioOrder)
            /\ r = ScenarioOrder[calls + 1]
            /\ AcquireBegin(r)
    \/ \E r \in ScenarioReqs : LockedScan(r)
    \/ \E r \in ScenarioReqs : Wake(r)
    \/ \E r \in ScenarioReqs : BuildResponse(r)
    \/ Tick

SpecScenario == ScenarioInit /\ [][ScenarioNext]_vars

\* the steps of request r that the event loop runs once they are ready; the end
\* of the upstream stream is not among them: it may never come
Proceed(r) ==
    \/ SemaphoreAcquired(r)
    \/ SemaphoreTimeout(r)
    \/ LockedScan(r)
    \/ Wake(r)
    \/ ServerBusy(r)
    \/ BuildResponse(r)
    \/ Finish(r)

LiveInit ==
    /\ QuotaIdle
    /\ \E keys \in Pools \ {<<>>} : LimiterInit(TRUE, keys, MaxRpmPerKey, MaxConcurrent)

LiveNext ==
    \/ \E r \in Reqs : calls < LiveCalls /\ AcquireBegin(r)
    \/ \E r \in Reqs : Proceed(r)
    \/ \E r \in Reqs : Stream(r, "complete")
    \/ Clock

\* the limiter under a scheduler that runs every ready task and a clock that
\* does not stop
SpecLive ==
    /\ LiveInit
    /\ [][LiveNext]_vars
    /\ WF_vars(Clock)
    /\ \A r \in Reqs : WF_vars(Proceed(r))

\* the pools whose statistics are read: one credential of any text, alone or
\* followed by a second one
StatsInit ==
    /\ QuotaIdle
    /\ \E keys \in {<<"A">>, <<"A", "B">>}, text \in Credentials :
            LimiterWith(TRUE, keys, [KeyText(keys) EXCEPT !["A"] = text],
                        MaxRpmPerKey, MaxConcurrent)

StatsNext == GetStats

\* get_stats() of a limiter whose pool holds any credential
SpecStats == StatsInit /\ [][StatsNext]_vars

\* credentials of MaxKeyLen characters that differ from one name to the next
DistinctText(keys) ==
    [key \in Range(keys) |-> [i \in 1..MaxKeyLen |-> IF key = "A" THEN "k" ELSE "."]]

ObserveInit ==
    /\ QuotaIdle
    /\ \E keys \in {<<"A">>, <<"A", "B">>} :
            LimiterWith(TRUE, keys, DistinctText(keys), MaxRpmPerKey, MaxConcurrent)

ObserveNext ==
    \/ \E r \in Reqs : calls < LiveCalls /\ AcquireBegin(r)
    \/ \E r \in Reqs : SemaphoreAcquired(r)
    \/ \E r \in Reqs : SemaphoreTimeout(r)
    \/ \E r \in Reqs : LockedScan(r)
    \/ \E r \in Reqs : Wake(r)
    \/ \E r \in Reqs : ServerBusy(r)
    \/ \E r \in Reqs : BuildResponse(r)
    \/ \E r \in Reqs : Stream(r, "complete")
    \/ \E r \in Reqs : Finish(r)
    \/ GetStats
    \/ Tick

\* the enabled limiter serving requests while its statistics are read
SpecObserve == ObserveInit /\ [][ObserveNext]_vars

\* the handler tasks of one process that serve chat requests at the same time
Handlers == {"r1", "r2"}

\* the call of check_and_increment that the handler of request r awaits
QuotaCall(r) == IF r = "r1" THEN "w1" ELSE "w2"

\* `user_id = user.get('uid') or user`: each handler task serves one caller
Caller(r) == IF r = "r1" THEN "u1" ELSE "u2"

\* `quota_allowed, usage = await user_quota.check_and_increment(user_id)`
HandlerBegin(r, u) ==
    /\ req[r].pc = "idle"
    /\ ~Running
    /\ calls < HandlerCalls
    /\ Begin(QuotaCall(r), u, "check_and_increment")

\* history: the request remembers the counts that its quota guard read, the
\* caller's counters as they were before the request
Counted(r) == [IdleReq EXCEPT !.quota_before = task[QuotaCall(r)].seen_count]

QuotaIgnored(r) ==
    /\ task[QuotaCall(r)].pc = "ret"
    /\ Consume(QuotaCall(r))
    /\ AcquireWith(r, Counted(r))

\* the guard allowed the request:
\* `success, api_key = await llm_rate_limiter.acquire()`
QuotaAllowed(r) ==
    /\ task[QuotaCall(r)].pc = "ret"
    /\ task[QuotaCall(r)].allowed
    /\ Consume(QuotaCall(r))
    /\ AcquireWith(r, Counted(r))

QuotaResponseBare(usage) == [status |-> 429, error |-> "quota_exceeded", usage |-> {}]

\* HTTPException(status_code=429, detail={'error': 'quota_exceeded',
\* 'message': ..., 'usage': usage.to_dict()})
QuotaResponse(usage) == [status |-> 429, error |-> "quota_exceeded", usage |-> {usage}]

\* `if not quota_allowed: raise HTTPException(status_code=429, ...)`
QuotaExceeded(r) ==
    /\ task[QuotaCall(r)].pc = "ret"
    /\ ~task[QuotaCall(r)].allowed
    /\ Consume(QuotaCall(r))
    /\ req' = [req EXCEPT ![r] =
            [IdleReq EXCEPT !.pc = "done", !.outcome = "quota_exceeded",
                            !.response = QuotaResponse(task[QuotaCall(r)].usage_data)]]
    /\ UNCHANGED <<now, config, semaphore, lock, current_key_index,
                   key_timestamps, outstanding, calls, stats, last_grant>>

\* check_and_increment raised: the exception leaves the handler at line 45
QuotaRaised(r) ==
    /\ task[QuotaCall(r)].pc = "raised"
    /\ Consume(QuotaCall(r))
    /\ req' = [req EXCEPT ![r] =
            [IdleReq EXCEPT !.pc = "done", !.outcome = "quota_error",
                            !.response = ErrorResponse(FALSE)]]
    /\ UNCHANGED <<now, config, semaphore, lock, current_key_index,
                   key_timestamps, outstanding, calls, stats, last_grant>>

\* TickLen seconds pass, for the process and for the store; a call of the store
\* is answered before the clock reads a new value
HandlerTick ==
    /\ now + TickLen <= MaxTime
    /\ AllIdle
    /\ Expiry(TickLen, elapses)
    /\ Reading

\* both services enabled, over an empty store; the gate has one slot and the
\* pool two credentials, or none
HandlerInit ==
    /\ QuotaIdle
    /\ \E keys \in {<<>>, <<"A", "B">>} : LimiterInit(TRUE, keys, MaxRpmPerKey, 1)

HandlerNext ==
    \/ \E r \in Handlers : HandlerBegin(r, Caller(r))
    \/ \E r \in Handlers : ~Running /\ Get(QuotaCall(r))
    \/ \E r \in Handlers : ~Running /\ Ttl(QuotaCall(r))
    \/ \E r \in Handlers : ~Running /\ Execute(QuotaCall(r))
    \/ \E r \in Handlers : ~Running /\ StoreError(QuotaCall(r))
    \/ \E r \in Handlers : QuotaAllowed(r)
    \/ \E r \in Handlers : QuotaExceeded(r)
    \/ \E r \in Handlers : QuotaRaised(r)
    \/ \E r \in Handlers : Quiet /\ SemaphoreAcquired(r)
    \/ \E r \in Handlers : Quiet /\ SemaphoreTimeout(r)
    \/ \E r \in Handlers : Quiet /\ LockedScan(r)
    \/ \E r \in Handlers : Quiet /\ Wake(r)
    \/ \E r \in Handlers : Quiet /\ ServerBusy(r)
    \/ \E r \in Handlers : Quiet /\ BuildResponse(r)
    \/ \E r \in Handlers : Quiet /\ BuildError(r)
    \/ \E r \in Handlers, how \in StreamEnds : Quiet /\ Stream(r, how)
    \/ \E r \in Handlers : Quiet /\ Finish(r)
    \/ HandlerTick

\* pass_user_prompt_to_llm: the quota guard, then the admission limiter
SpecHandler == HandlerInit /\ [][HandlerNext]_vars

----------------------------------------------------------------------------
(* Properties of the quota guard *)

Returned(w) == task[w].pc = "ret" /\ task[w].op = "check_and_increment"

\* C1: in sequential use, a check_and_increment that reads a timeframe's counter
\* after exactly `limit` calls were accepted in the life of that counter is
\* rejected, reports used = limit = the configured limit for that timeframe, and
\* has written nothing to the store.
C1_LimitReachedRejects ==
    \A w \in Workers : \A tf \in TF :
        (Returned(w) /\ task[w].touched /\ task[w].seen_accepted[tf] = Limit(tf))
        => /\ ~task[w].allowed
           /\ task[w].usage_data[tf].used = Limit(tf)
           /\ task[w].usage_data[tf].limit = Limit(tf)
           /\ ~task[w].wrote

C1_Witness ==
    \E w \in Workers :
        /\ Returned(w) /\ ~task[w].allowed
        /\ task[w].seen_accepted["day"] = PerDay
        /\ task[w].seen_accepted["hour"] < PerHour

\* C2: under any interleaving of concurrent calls for one caller, no counter of
\* the store holds more than its limit, and no more than `limit` calls are
\* accepted in the life of a counter.
C2_NeverAboveLimit ==
    \A k \in Keys : redis[k].val <= Limit(k[3]) /\ accepted[k] <= Limit(k[3])

\* C6: a store operation that fails never surfaces: no call ends by raising.
C6_StoreErrorsSwallowed == \A w \in Workers : task[w].pc # "raised"

\* C7: with quota enabled and no store client, check_and_increment and get_usage
\* return allowed with used = 0 in the three timeframes, whatever the store holds,
\* and perform no store operation.
C7_NoClientFailsOpen ==
    \A w \in Workers :
        (enabled[w] /\ ~has_redis[w])
        => /\ task[w].pc \in {"idle", "ret"}
           /\ task[w].pc = "ret"
              => /\ task[w].allowed
                 /\ \A tf \in TF : task[w].usage_data[tf].used = 0
                 /\ ~task[w].touched /\ ~task[w].wrote

C7_Witness ==
    \E w \in Workers :
        /\ enabled[w] /\ ~has_redis[w] /\ Returned(w)
        /\ redis[_get_key(task[w].user_id, "minute")].val = PerMinute

\* C8: with quota_enabled = false, check_and_increment returns allowed with
\* used = 0 in the three timeframes, whatever the store holds, and neither reads
\* nor writes the store.
C8_DisabledAlwaysAllows ==
    \A w \in Workers :
        (~enabled[w] /\ task[w].op = "check_and_increment")
        => /\ task[w].pc = "ret"
           /\ task[w].allowed
           /\ \A tf \in TF : task[w].usage_data[tf].used = 0
           /\ ~task[w].touched /\ ~task[w].wrote

C8_Witness ==
    \E w \in Workers :
        /\ ~enabled[w] /\ has_redis[w] /\ Returned(w)
        /\ redis[_get_key(task[w].user_id, "hour")].val = PerHour

\* C9: a check_and_increment that returns is rejected exactly when one of the
\* three counts it read was at or above its limit; a rejected call has written
\* nothing and returns the counts as it read them.
C9_RejectIffExceeded ==
    \A w \in Workers :
        (Returned(w) /\ task[w].touched)
        => /\ ~task[w].allowed
              <=> \E tf \in TF : task[w].seen_count[tf] >= Limit(tf)
           /\ ~task[w].allowed
              => /\ ~task[w].wrote
                 /\ \A tf \in TF : task[w].usage_data[tf].used = task[w].seen_count[tf]

C9_Witness ==
    \E w \in Workers :
        /\ Returned(w) /\ ~task[w].allowed
        /\ task[w].seen_count["minute"] < PerMinute
        /\ task[w].seen_count["hour"] >= PerHour

\* C10: a call accepted less than a window ago is still counted by its counter,
\* and no live counter counts a call accepted more than a window ago.
C10_RollingWindow ==
    \A k \in Keys :
        /\ (last_age[k] # -1 /\ last_age[k] < Window(k[3])) => redis[k].ttl # -2
        /\ redis[k].ttl # -2 => first_age[k] <= Window(k[3])

----------------------------------------------------------------------------
C11_RejectedWritesNothing ==
    \A w \in Workers :
        (task[w].pc # "ret" /\ task'[w].pc = "ret" /\ ~task'[w].allowed)
        => redis' = redis

C11_AcceptedAfterWait ==
    \A w \in Workers :
        (Returned(w) /\ task[w].touched /\ task[w].recovered) => task[w].allowed

----------------------------------------------------------------------------
(* Properties of the admission limiter and of the handler's use of it *)

C3_Bounded ==
    lim_enabled =>
        /\ outstanding <= max_concurrent
        /\ semaphore >= 0
        /\ \A r \in Reqs :
              (req[r].pc = "rejected" /\ req[r].outcome = "timeout")
              => now >= req[r].deadline /\ ~req[r].success /\ req[r].api_key = "none"

C3_PassesGate ==
    lim_enabled =>
        \A r \in Reqs :
            (req[r].pc \in {"idle", "sem_wait"}
                /\ req'[r].pc \in {"lock_wait", "rpm_sleep", "acquired", "responding"})
            => outstanding < max_concurrent /\ semaphore > 0

\* C3: with the limiter enabled, at most max_concurrent granted acquisitions are
\* unreleased at any time; an acquire() passes the gate only in a step that starts
\* with fewer than max_concurrent of them outstanding and a free slot, so one that
\* finds max_concurrent outstanding waits for a release; and the one that gives up
\* does so no sooner than queue_timeout after it began, with (False, None).
C3_GateBound == [](C3_Bounded) /\ [][C3_PassesGate]_vars

C3_Witness ==
    /\ lim_enabled /\ outstanding = max_concurrent
    /\ \E r \in Reqs : req[r].pc = "rejected" /\ req[r].outcome = "timeout"

\* the recorded calls of a key that get_stats counts as recent: `now - t <= 60`
Recent(timestamps, t) == {n \in DOMAIN timestamps : t - timestamps[n] <= 60}

\* C4: with the limiter enabled, no credential has more than max_rpm_per_key
\* granted acquisitions in the trailing 60 seconds.
C4_RpmCeiling ==
    lim_enabled =>
        \A k \in DOMAIN key_timestamps :
            Cardinality(Recent(key_timestamps[k], now)) <= max_rpm_per_key

\* C5: a request whose acquire() returned granted has called release() exactly
\* once when it is over, whatever way it ended.
C5_ReleasedOnce ==
    \A r \in Reqs :
        (req[r].pc = "done" /\ req[r].success) => req[r].released = 1

C12_GrantsFromPool ==
    (lim_enabled /\ api_keys # <<>>) =>
        \A r \in Reqs :
            /\ req[r].pc = "acquired" => req[r].success /\ req[r].api_key \in Range(api_keys)
            /\ req[r].pc = "rejected" => req[r].outcome = "timeout"

C12_NoRejectionPastGate ==
    \A r \in Reqs :
        req[r].pc \in {"lock_wait", "rpm_sleep"}
        => req'[r].pc \in {"lock_wait", "rpm_sleep", "acquired", "done"}

\* C12: with the limiter enabled and a non-empty pool, an acquire() that holds a
\* slot of the gate is never rejected: it waits, and when it returns it returns
\* granted with a credential of the pool; the only rejection is the gate timeout.
C12_OnlyDelayed == [](C12_GrantsFromPool) /\ [][C12_NoRejectionPastGate]_vars

C12_Witness ==
    /\ lim_enabled
    /\ \E r \in Reqs :
          /\ req[r].pc = "acquired" /\ req[r].oldest_key # "none"
          /\ req[r].api_key = req[r].oldest_key
          /\ Len(key_timestamps[req[r].api_key]) > max_rpm_per_key

\* the credential that follows a credential in pool order, with wraparound
Following(keys, key) == keys[(FirstIndex(keys, key) % Len(keys)) + 1]

Alternate(n) == IF n % 2 = 1 THEN "A" ELSE "B"

C14_FourInOrder ==
    /\ outstanding \in 1..4 => last_grant.key = Alternate(outstanding)
    /\ \A r \in ScenarioReqs :
            req[r].pc = "rpm_sleep"
            => /\ outstanding >= 4
               /\ req[r].wait_time \in 1..60
               /\ \A k \in DOMAIN key_timestamps :
                    Head(key_timestamps[req[r].oldest_key]) <= Head(key_timestamps[k])

C14_LaterGrantWaits ==
    \A r \in ScenarioReqs :
        (req[r].pc \in {"lock_wait", "rpm_sleep"} /\ req'[r].pc = "acquired")
        => LET window == key_timestamps[req'[r].api_key]
           IN  \/ Cardinality(Recent(window, now)) < max_rpm_per_key
               \/ now - Head(window) >= 60

InAcquire(r) == req[r].pc \in {"sem_wait", "lock_wait", "rpm_sleep"}

C15_WaitsBounded ==
    \A r \in Reqs :
        /\ req[r].pc = "sem_wait" => req[r].deadline <= now + QueueTimeout
        /\ req[r].pc = "rpm_sleep"
           => req[r].wait_time \in 1..60 /\ req[r].slept_from + req[r].wait_time <= now + 60

\* C15: every call of acquire() that is suspended, on the gate, on the lock or in
\* the RPM sleep, eventually leaves acquire(); the gate wait ends no later than
\* queue_timeout after it began and the RPM sleep lasts at most 60 seconds.
C15_AcquireReturns ==
    /\ [](C15_WaitsBounded)
    /\ \A r \in Reqs : InAcquire(r) ~> ~InAcquire(r)

C15_Witness ==
    /\ lock # "none" /\ req[lock].pc = "rpm_sleep"
    /\ \E r \in Reqs : req[r].pc = "lock_wait"

\* a task that is suspended: in one of acquire()'s awaits or in the upstream call
Suspended(r) == InAcquire(r) \/ req[r].pc = "responding"

\* C16: the limiter's lock is held only during the scan-and-trim of the pool; in
\* no reachable state does a task hold the lock while it is suspended (waiting
\* on the gate, sleeping for an RPM window, or in the upstream call)
C16_LockOnlyDuringScan ==
    \A r \in Reqs : lock = r => ~Suspended(r)

\* a task sleeps for an RPM window inside `async with self.lock` while another
\* acquirer waits for that lock
C16_SleepsHoldingLock ==
    \E r \in Reqs :
        /\ lock = r /\ req[r].pc = "rpm_sleep"
        /\ \E other \in Reqs \ {r} : req[other].pc = "lock_wait"

C17_DisabledFrame ==
    ~lim_enabled =>
        /\ semaphore = max_concurrent
        /\ lock = "none"
        /\ current_key_index = 0
        /\ \A key \in DOMAIN key_timestamps : key_timestamps[key] = <<>>
        /\ \A r \in Reqs :
                /\ ~InAcquire(r) /\ req[r].pc # "rejected"
                /\ req[r].pc \in {"acquired", "responding"}
                   => req[r].success /\ req[r].api_key = FirstOrNone(api_keys)

C17_DisabledReturnsAtOnce ==
    \A r \in Reqs :
        ~lim_enabled /\ req[r].pc = "idle" /\ req'[r].pc # "idle"
        => /\ req'[r].pc = "acquired"
           /\ req'[r].success
           /\ req'[r].api_key = FirstOrNone(api_keys)

\* C17: with the limiter disabled, acquire() returns at once (granted, the
\* first configured credential or none) for any number of concurrent callers,
\* and neither acquire() nor release() changes the gate, the cursor or a window
C17_DisabledPassThrough ==
    [](C17_DisabledFrame) /\ [][C17_DisabledReturnsAtOnce]_vars

\* disabled: more callers than max_concurrent hold a grant at once, and one of
\* them has gone through release()
C17_Witness ==
    /\ ~lim_enabled
    /\ Cardinality({r \in Reqs : req[r].success}) > max_concurrent
    /\ \E r \in Reqs : req[r].released = 1
    /\ \E r \in Reqs : req[r].pc = "responding"

C18_NoSlotTaken ==
    lim_enabled /\ api_keys = <<>> =>
        /\ semaphore = max_concurrent
        /\ lock = "none"
        /\ \A r \in Reqs :
                /\ req[r].pc \in {"idle", "rejected", "done"}
                /\ ~req[r].success /\ req[r].api_key = "none"

C18_RejectedAtOnce ==
    \A r \in Reqs :
        lim_enabled /\ api_keys = <<>> /\ req[r].pc = "idle" /\ req'[r].pc # "idle"
        => req'[r].pc = "rejected" /\ semaphore' = semaphore

\* C18: with the limiter enabled and an empty pool, every acquire() returns
\* (false, none) at once without taking a gate slot: after any number of such
\* calls the gate still has all max_concurrent slots free
C18_EmptyPoolRejects ==
    [](C18_NoSlotTaken) /\ [][C18_RejectedAtOnce]_vars

\* enabled, no credential: more calls than the gate has slots were all rejected
C18_Witness ==
    /\ lim_enabled /\ api_keys = <<>>
    /\ calls > max_concurrent
    /\ \E r \in Reqs : req[r].pc = "rejected" /\ ~req[r].success
    /\ semaphore = max_concurrent

\* hay has needle as a run of consecutive characters
Contains(hay, needle) ==
    \E i \in 0..(Len(hay) - Len(needle)) : SubSeq(hay, i + 1, i + Len(needle)) = needle

\* the positions of a credential whose character its masked form reproduces
Shown(key) == {i \in DOMAIN key : i <= 8 \/ i > Len(key) - 4}

\* C19: for every credential of the pool, of any length, the identifier under
\* which get_stats() reports it does not contain the full credential: at least
\* one character of the credential is absent from the masked form
C19_MaskedHidesCredential ==
    stats.called =>
        \A key \in Range(api_keys) :
            /\ \A m \in DOMAIN stats.keys : ~Contains(m, secret[key])
            /\ Shown(secret[key]) # DOMAIN secret[key]

\* while the quota guard of a request runs, the request has not reached the limiter
C20_GuardRunsFirst ==
    \A r \in Handlers :
        /\ task[QuotaCall(r)].pc # "idle" => req[r].pc = "idle"
        /\ req[r].outcome \in {"quota_exceeded", "quota_error"}
           => req[r].pc = "done" /\ ~req[r].success

\* acquire() is entered only on an allowed answer of check_and_increment
C20_AcquireOnlyIfAllowed ==
    calls' # calls =>
        \E r \in Handlers :
            /\ task[QuotaCall(r)].pc = "ret"
            /\ task[QuotaCall(r)].op = "check_and_increment"
            /\ task[QuotaCall(r)].allowed
            /\ req[r].pc = "idle" /\ req'[r].pc # "idle"

\* the steps of a request that the guard rejects leave the limiter alone
C20_RejectedTakesNothing ==
    \A r \in Handlers :
        \/ /\ task[QuotaCall(r)].pc = "ret" /\ ~task[QuotaCall(r)].allowed
           /\ task'[QuotaCall(r)].pc = "idle"
        \/ req[r].outcome = "quota_exceeded"
        => UNCHANGED <<semaphore, lock, current_key_index, key_timestamps, calls>>

\* C20: in the handler the quota guard runs before the admission limiter, and
\* acquire() is invoked only for requests the guard allowed: a request the guard
\* rejects takes no gate slot, records no credential timestamp and does not
\* move the rotation cursor
C20_GuardBeforeLimiter ==
    /\ [](C20_GuardRunsFirst)
    /\ [][C20_AcquireOnlyIfAllowed /\ C20_RejectedTakesNothing]_vars

\* one request streams on the slot the limiter gave it while another, of the
\* same caller, has just been rejected by the guard
C20_Witness ==
    \E r \in Handlers, other \in Handlers :
        /\ req[r].pc = "responding" /\ semaphore = 0
        /\ req[other].pc = "done" /\ req[other].outcome = "quota_exceeded"

\* a server-busy answer: 429, no usage snapshot
Busy(response) ==
    response.status = 429 /\ response.error = "server_busy" /\ response.usage = {}

\* a snapshot with the three timeframes, of a caller at or above a limit
FullSnapshot(usage) ==
    /\ \A tf \in TF :
            /\ usage[tf].limit = Limit(tf)
            /\ usage[tf].used >= 0
            /\ usage[tf].resets_in \in 0..Window(tf)
    /\ \E tf \in TF : usage[tf].used >= usage[tf].limit

C21_RejectionKinds ==
    \A r \in Handlers :
        /\ req[r].outcome = "quota_exceeded"
           => /\ req[r].response.status = 429
              /\ req[r].response.error = "quota_exceeded"
              /\ Cardinality(req[r].response.usage) = 1
              /\ \A usage \in req[r].response.usage : FullSnapshot(usage)
        /\ req[r].pc = "done" /\ req[r].outcome \in {"timeout", "no_keys"}
           => Busy(req[r].response)

C21_AnswersTheRejection ==
    \A r \in Handlers :
        /\ task[QuotaCall(r)].pc = "ret" /\ ~task[QuotaCall(r)].allowed
           /\ task'[QuotaCall(r)].pc = "idle"
           => /\ req'[r].pc = "done"
              /\ req'[r].response.error = "quota_exceeded"
              /\ req'[r].response.usage = {task[QuotaCall(r)].usage_data}
        /\ req[r].pc = "rejected" /\ req'[r] # req[r]
           => req'[r].pc = "done" /\ Busy(req'[r].response)

\* C21: a request the quota guard rejects is answered rate-limited (429) with
\* the full usage snapshot; a request the limiter rejects (timeout or empty
\* pool) is answered server-busy (429) without a snapshot; neither rejection
\* becomes an internal-error response
C21_RejectionResponses ==
    [](C21_RejectionKinds) /\ [][C21_AnswersTheRejection]_vars

\* a request of a caller whose minute quota is used up has its rate-limited
\* answer while the other handler has been through the limiter
C21_Witness ==
    \E r \in Handlers :
        /\ req[r].pc = "done" /\ req[r].outcome = "quota_exceeded"
        /\ \E usage \in req[r].response.usage : usage["minute"].used >= PerMinute
        /\ calls > 1

\* the calls of get_usage that take the read path: service enabled, with a client
ReadsStore(w) == task[w].op = "get_usage" /\ enabled[w] /\ has_redis[w]

C22_ReturnsStoredCounts ==
    \A w \in Workers :
        task[w].op = "get_usage" /\ task[w].pc = "ret"
        => /\ ~task[w].wrote
           /\ \A tf \in TF :
                /\ task[w].usage_data[tf].limit = Limit(tf)
                /\ ReadsStore(w) => task[w].usage_data[tf].used = task[w].seen_count[tf]

C22_ReadOnly ==
    \A w \in Workers :
        /\ (task[w].op = "get_usage" \/ task'[w].op = "get_usage") /\ task'[w] # task[w]
           => redis' = redis
        /\ task[w].op = "get_usage" /\ task[w].pc = "get" /\ task'[w].pc = "ttl"
           => LET key == _get_key(task[w].user_id, Timeframes[task[w].i])
              IN  task'[w].current_count =
                        IF redis[key].ttl = -2 THEN 0 ELSE redis[key].val

\* C22: get_usage changes no counter and no TTL of the store, for any caller
\* and in any state, and returns for each timeframe the configured limit and
\* the count it read from the store (0 when the counter is absent); the calls
\* of a disabled service, or of one without a client, read nothing
C22_GetUsageReadOnly ==
    [](C22_ReturnsStoredCounts) /\ [][C22_ReadOnly]_vars

\* get_usage has returned the counts of a caller who has used up the minute
C22_Witness ==
    \E w \in Workers :
        /\ ReadsStore(w) /\ task[w].pc = "ret"
        /\ task[w].usage_data["minute"].used = PerMinute
        /\ task[w].usage_data["hour"].used = PerMinute
        /\ redis[_get_key(task[w].user_id, "minute")].val = PerMinute

C23_CountersExpire ==
    \A k \in Keys :
        redis[k].ttl # -2 => redis[k].ttl \in 1..Window(k[3]) /\ redis[k].val >= 1

C23_SnapshotsInWindow ==
    \A w \in Workers :
        task[w].pc = "ret" =>
            \A tf \in TF : task[w].usage_data[tf].resets_in \in 0..Window(tf)

C23_AbsentReadsAsEmpty ==
    \A w \in Workers :
        LET t == task[w]
            tf == Timeframes[t.i]
            absent == redis[_get_key(t.user_id, tf)].ttl = -2
        IN  /\ t.pc = "get" /\ task'[w].pc = "ttl" /\ absent
               => task'[w].current_count = 0
            /\ t.pc = "ttl" /\ task'[w].pc \in {"get", "ret", "exec"} /\ absent
               => /\ task'[w].usage_data[tf].resets_in = Window(tf)
                  /\ t.current_count = 0 => task'[w].usage_data[tf].used = 0

\* C23: every existing quota counter has a remaining TTL that is positive and
\* at most its timeframe's window, so no counter lives forever; every snapshot
\* reports resets_in within 0..window, and a counter that is absent is
\* reported as used = 0 and resets_in = window
C23_TtlBounds ==
    /\ [](C23_CountersExpire /\ C23_SnapshotsInWindow)
    /\ [][C23_AbsentReadsAsEmpty]_vars

\* a snapshot returned after the caller's minute counter has expired: the
\* minute reads as empty with a full window, the hour counter is part way
C23_Witness ==
    \E w \in Workers :
        /\ task[w].pc = "ret" /\ task[w].touched
        /\ task[w].usage_data["minute"] =
                [used |-> 0, limit |-> PerMinute, resets_in |-> 60]
        /\ task[w].usage_data["hour"].used = 1
        /\ task[w].usage_data["hour"].resets_in \in 1..3599

\* C24: whenever check_and_increment returns allowed, the used value it returns
\* for each timeframe is the value the counter holds in the store right after
\* this call's own increment, also when other calls of the caller run at the
\* same time or the counter expires between the read and the increment
C24_ReturnsStoredValue ==
    [][\A w \in Workers :
            task[w].pc = "exec" /\ task'[w].pc = "ret"
            => \A tf \in TF :
                    task'[w].usage_data[tf].used =
                        redis'[_get_key(task[w].user_id, tf)].val]_vars

\* the counter of a caller for a timeframe
Counter(u, tf) == redis[_get_key(u, tf)]

Live(u, tf) == Counter(u, tf).ttl # -2

\* the three counters of a caller were last written together: a live counter
\* of a shorter window comes with the counters of the longer windows, their
\* TTLs apart by the difference of the windows
C25_WrittenTogether ==
    \A u \in Users : \A a \in TF, b \in TF :
        Window(a) < Window(b) /\ Live(u, a)
        => /\ Live(u, b)
           /\ Counter(u, b).ttl - Counter(u, a).ttl = Window(b) - Window(a)
           /\ Counter(u, b).val >= Counter(u, a).val

\* a step of the store that increments one counter of a caller increments the
\* three of them by one and sets their TTLs to the windows
C25_OneBatch ==
    \A u \in Users :
        (\E tf \in TF : Counter(u, tf)'.val > Counter(u, tf).val)
        => \A tf \in TF :
                /\ Counter(u, tf)'.val = CurrentCount(redis, _get_key(u, tf)) + 1
                /\ Counter(u, tf)'.ttl = Window(tf)

\* C25: an accepted check_and_increment increments the caller's three counters
\* by exactly 1 and sets each TTL to its window in one atomic store step: no
\* store state, between any two store operations of any process, has some but
\* not all of the three counters updated by an accepted call
C25_AtomicBatch ==
    [](C25_WrittenTogether) /\ [][C25_OneBatch]_vars

\* a call that read the minute counter before another call's accepted batch
\* is between two of its store operations after it
C25_Witness ==
    \E w \in Workers :
        /\ task[w].pc = "ttl" /\ task[w].i = 2
        /\ task[w].seen_count["minute"] = 0
        /\ \A tf \in TF : Counter(task[w].user_id, tf) = [val |-> 1, ttl |-> Window(tf)]

\* C26: every usage snapshot that check_and_increment (before its own
\* increment) or get_usage returns holds minute, hour and day counts that were
\* the store's values at one instant: no snapshot mixes a count read before
\* another request's accepted increment with a count read after it
C26_SnapshotAtOneInstant ==
    \A w \in Workers :
        task[w].pc \in {"ret", "exec"} /\ task[w].touched => ~task[w].torn

\* request r is granted on the path taken when every credential is at its ceiling
SaturatedGrant(r) ==
    /\ req[r].pc \in {"lock_wait", "rpm_sleep"}
    /\ req'[r].pc = "acquired"
    /\ req'[r].oldest_key # "none"

C27_OldestAgedOut ==
    \A r \in Reqs :
        SaturatedGrant(r) =>
            LET key == req'[r].api_key
                window == key_timestamps'[key]
            IN  /\ key = req'[r].oldest_key
                /\ \A k \in DOMAIN key_timestamps :
                        /\ key_timestamps[k] # <<>>
                        /\ Len(key_timestamps'[k]) >= max_rpm_per_key
                        /\ Head(window) <= Head(key_timestamps'[k])
                /\ window = Append(key_timestamps[key], now) \/
                   window = Append(Trim(key_timestamps[key], now), now)
                /\ now - Head(window) >= 60

C27_WaitAtMostWindow ==
    \A r \in Reqs :
        req[r].pc = "rpm_sleep"
        => /\ req[r].wait_time \in 1..60
           /\ req[r].wait_time = 60 - (req[r].slept_from -
                                       Head(key_timestamps[req[r].oldest_key]))
           /\ \A k \in DOMAIN key_timestamps :
                /\ Len(key_timestamps[k]) >= max_rpm_per_key
                /\ Head(key_timestamps[req[r].oldest_key]) <= Head(key_timestamps[k])

\* C27: when acquire() finds every credential at its ceiling it chooses the
\* credential whose oldest timestamp is the earliest of the pool, and records
\* the new timestamp for it and returns it only at a time when that oldest
\* timestamp is at least 60 seconds old; the wait is at most 60 seconds
C27_SaturatedPath ==
    [](C27_WaitAtMostWindow) /\ [][C27_OldestAgedOut]_vars

\* the second credential of the pool had the earliest timestamp and was
\* granted on the saturated path
C27_Witness ==
    \E r \in Reqs :
        /\ req[r].pc = "acquired" /\ req[r].oldest_key = "B"
        /\ Len(key_timestamps["B"]) > max_rpm_per_key

\* the requests in progress that hold a gate slot
SlotHolders ==
    {r \in Reqs : req[r].pc \in {"lock_wait", "rpm_sleep", "acquired", "responding"}}

\* C28: gate slots are conserved under cancellation: free slots plus the slots
\* held by requests in progress equal max_concurrent in every reachable state,
\* also when a request is cancelled inside acquire() after it took a slot
C28_SlotsConserved ==
    lim_enabled => semaphore + Cardinality(SlotHolders) = max_concurrent

\* what acquire() leaves of the limiter when it gives up at the gate
C29_TimeoutStep ==
    \A r \in Reqs :
        (req[r].pc = "sem_wait" /\ req'[r].pc = "rejected")
        => /\ req'[r].outcome = "timeout"
           /\ ~req'[r].success /\ req'[r].api_key = "none"
           /\ r \notin SlotHolders'
           /\ UNCHANGED <<semaphore, lock, current_key_index, key_timestamps,
                          outstanding>>

C29_TimedOut ==
    \A r \in Reqs :
        (req[r].pc = "rejected" /\ req[r].outcome = "timeout")
        => ~req[r].success /\ req[r].api_key = "none"

\* C29: an acquire() that times out waiting at the concurrency gate returns
\* (False, None), holds no gate slot, appends no timestamp to any credential's
\* window and does not move the rotation cursor.
C29_TimeoutTakesNothing == [](C29_TimedOut) /\ [][C29_TimeoutStep]_vars

C29_Witness ==
    \E r \in Reqs :
        /\ req[r].pc = "rejected" /\ req[r].outcome = "timeout"
        /\ lim_enabled /\ semaphore = 0
        /\ SlotHolders # {} /\ r \notin SlotHolders
        /\ \E k \in DOMAIN key_timestamps : Len(key_timestamps[k]) > 0

\* the distinct credentials of the pool
PoolCredentials == {secret[key] : key \in Range(api_keys)}

\* what get_stats() is to report of the credential named key
C30_Entry(key) ==
    [rpm_used |-> RpmUsed(key_timestamps[key], now), rpm_limit |-> max_rpm_per_key]

C30_OneEntryEach ==
    stats.called =>
        /\ Cardinality(DOMAIN stats.keys) = Cardinality(PoolCredentials)
        /\ \A key \in Range(api_keys) :
              /\ Masked(secret[key]) \in DOMAIN stats.keys
              /\ stats.keys[Masked(secret[key])] = C30_Entry(key)
        /\ \A k1, k2 \in Range(api_keys) :
              secret[k1] # secret[k2] => Masked(secret[k1]) # Masked(secret[k2])

C30_ReadOnly ==
    stats' # stats =>
        UNCHANGED <<now, config, semaphore, lock, current_key_index,
                    key_timestamps, req, outstanding, calls, last_grant>>

\* C30: get_stats() changes no limiter state and returns exactly one entry for
\* each distinct credential of the pool, whose rpm_used is the number of that
\* credential's recorded calls in the last 60 seconds and whose rpm_limit is
\* max_rpm_per_key; two distinct credentials are never reported under the same
\* masked identifier.
C30_StatsPerCredential == [](C30_OneEntryEach) /\ [][C30_ReadOnly]_vars

\* C31: in every reachable state of an enabled limiter, get_stats() reports
\* rpm_used <= rpm_limit for every credential, also right after a grant issued
\* through the wait path taken when all credentials are saturated.
C31_StatsWithinLimit ==
    (lim_enabled /\ stats.called) =>
        \A masked \in DOMAIN stats.keys :
            stats.keys[masked].rpm_used <= stats.keys[masked].rpm_limit

\* the characters of the timeframe names
TimeframeText ==
    [minute |-> <<"m", "i", "n", "u", "t", "e">>, hour |-> <<"h", "o", "u", "r">>,
     day |-> <<"d", "a", "y">>]

\* `f"quota:{user_id}:{timeframe}"`, character by character
KeyString(user_id, timeframe) ==
    <<"q", "u", "o", "t", "a", ":">> \o user_id \o <<":">> \o TimeframeText[timeframe]

\* caller identifiers: short ones that may hold the separator, and the ones
\* that end like the key of another caller or begin with a timeframe name
UserIds ==
    LET short == UNION {[1..n -> {"u", ":"}] : n \in 1..2}
    IN  short \cup {id \o <<":">> \o TimeframeText[tf] : id \in short, tf \in TF}
              \cup {TimeframeText[tf] \o <<":">> \o id : id \in short, tf \in TF}

\* distinct (caller, timeframe) pairs have distinct store keys
C32_KeysDistinct ==
    /\ \A a, b \in UserIds, x, y \in TF :
            KeyString(a, x) = KeyString(b, y) => a = b /\ x = y
    /\ \A a, b \in Users, x, y \in TF :
            _get_key(a, x) = _get_key(b, y) => a = b /\ x = y

\* a counter holds the number of accepted calls of its own caller since it was
\* created, and a call that read the store reports that number, plus its own
\* increment when it was accepted
C32_OwnCallsOnly ==
    /\ \A k \in Keys : redis[k].ttl # -2 => redis[k].val = accepted[k]
    /\ \A w \in Workers :
            (task[w].pc = "ret" /\ enabled[w] /\ has_redis[w])
            => \A tf \in TF :
                 task[w].usage_data[tf].used =
                    task[w].seen_accepted[tf] + (IF task[w].wrote THEN 1 ELSE 0)

\* a step of a call for caller a leaves the counters and TTLs of every other
\* caller as they were
C32_Frame ==
    \A w \in Workers :
        task'[w].pc # task[w].pc =>
            LET a == IF task[w].user_id # "none" THEN task[w].user_id
                     ELSE task'[w].user_id
            IN  \A b \in Users \ {a}, tf \in TF :
                    redis'[_get_key(b, tf)] = redis[_get_key(b, tf)]

\* C32: callers are isolated: check_and_increment(a) and get_usage(a) never
\* change a counter or a TTL of a caller b different from a, the result returned
\* for a is made of a's own accepted calls only, whatever the other callers do,
\* and distinct (caller, timeframe) pairs always map to distinct store keys.
C32_CallersIsolated ==
    [](C32_KeysDistinct /\ C32_OwnCallsOnly) /\ [][C32_Frame]_vars

\* caller u1's accepted call writes its counters while the counters of u2 are
\* live, and the two callers have different counts
C32_Witness ==
    /\ task["w1"].pc = "ret" /\ task["w1"].wrote /\ task["w1"].user_id = "u1"
    /\ task["w2"].pc \in {"get", "ttl", "exec"} /\ task["w2"].user_id = "u2"
    /\ \A tf \in TF : Live("u2", tf)
    /\ Counter("u1", "day").val # Counter("u2", "day").val

\* the count the store holds for a caller and a timeframe, 0 when the counter
\* is absent
Stored(u, tf) == CurrentCount(redis, _get_key(u, tf))

\* C33: in every reachable store state and for every caller, the stored counts
\* satisfy minute <= hour <= day (an absent counter counting as 0), under any
\* interleaving of accepted calls and counter expiries.
C33_CountsOrdered ==
    \A u \in Users :
        /\ Stored(u, "minute") <= Stored(u, "hour")
        /\ Stored(u, "hour") <= Stored(u, "day")

\* the hour counter has expired and was created again by a later accepted call,
\* while the day counter lived on
C33_Witness ==
    \E u \in Users :
        /\ Live(u, "minute") /\ Live(u, "hour") /\ Live(u, "day")
        /\ Stored(u, "minute") = 1 /\ Stored(u, "hour") = 1 /\ Stored(u, "day") = 2

\* C34: a request that the admission limiter rejects as server busy leaves the
\* caller's quota counters as they were before the request: quota is consumed
\* only by requests that were granted a credential.
C34_BusyKeepsQuota ==
    \A r \in Handlers :
        (req[r].pc = "done" /\ Busy(req[r].response))
        => \A tf \in TF : Stored(Caller(r), tf) = req[r].quota_before[tf]

\* timestamps in non-decreasing order
Sorted(timestamps) ==
    \A i, j \in DOMAIN timestamps : i < j => timestamps[i] <= timestamps[j]

\* the entries of a window that are not older than 60 seconds
Kept(timestamps, t) == SelectSeq(timestamps, LAMBDA x : t - x <= 60)

C35_WindowsSorted == \A key \in DOMAIN key_timestamps : Sorted(key_timestamps[key])

\* a scan leaves each window as it was, or without exactly its entries older
\* than 60 seconds, before the timestamp it appends to the granted credential;
\* the window of the granted credential, and every window when no credential had
\* capacity, has been trimmed
C35_TrimStep ==
    \A r \in Reqs :
        (req[r].pc = "lock_wait" /\ req'[r].pc # "lock_wait" /\ req'[r].pc # "done")
        => \A key \in DOMAIN key_timestamps :
             LET before == key_timestamps[key]
                 after == key_timestamps'[key]
                 granted == req'[r].pc = "acquired" /\ req'[r].api_key = key
                 trimmed == IF granted THEN SubSeq(after, 1, Len(after) - 1) ELSE after
                 all == req'[r].pc = "rpm_sleep" \/ req'[r].oldest_key # "none"
             IN  /\ trimmed \in {before, Kept(before, now)}
                 /\ (granted \/ all) => trimmed = Kept(before, now)
                 /\ granted => after[Len(after)] = now

\* C35: in every reachable state each credential's window is in non-decreasing
\* timestamp order, so the front-trim performed by acquire() removes exactly the
\* entries older than 60 seconds and leaves no entry older than 60 seconds
\* behind a newer one in a window it has just trimmed.
C35_PrefixTrim == [](C35_WindowsSorted) /\ [][C35_TrimStep]_vars

\* more requests hold a grant of a credential than its window has entries: the
\* entry of an earlier grant was trimmed before the latest one was appended
C35_Witness ==
    \E key \in DOMAIN key_timestamps :
        /\ Len(key_timestamps[key]) >= 1
        /\ Head(key_timestamps[key]) > 60
        /\ Cardinality({r \in Reqs : req[r].success /\ req[r].api_key = key
                                       /\ req[r].pc \in {"acquired", "responding"}})
                > Len(key_timestamps[key])

====
